---- MODULE Spec2Model ----
(***************************************************************************)
(* The todo store of src/store/todoStore.ts: a zustand store wrapped in    *)
(* devtools(persist(...)), its six actions, the selector hooks of the      *)
(* components that read it, and the storage medium behind persist.         *)
(***************************************************************************)
EXTENDS Integers, Sequences, FiniteSets, TLC

VARIABLES
  state,        \* the current snapshot: four data fields and six action handles
  created,      \* the objects the last call built: "state", "todos"
  observed,     \* per selector hook: the value it last observed
  fired,        \* per selector hook: notifications during the last call
  storage,      \* the medium's value under the key 'todo-storage'
  writes,       \* calls of the medium's setItem during the last call
  burstWrites,  \* writes to the medium since the clock reading last rose: none, one, many
  inflight,     \* fetchTodos calls suspended on their timer
  now,          \* the latest reading of Date.now(), in ms
  last,         \* the last call: which operation, how it ended, its text argument
  lastPartial,  \* the partial handed to set by the last call that reached set
  rejectsLeft,  \* calls whose write the medium may still reject
  sinceLoad     \* the calls since the page was loaded: nothing, mountFetch, more

vars == <<state, created, observed, fired, storage, writes, burstWrites,
          inflight, now, last, lastPartial, rejectsLeft, sinceLoad>>

----------------------------------------------------------------------------
(* Bounds *)

MaxTodos == 2       \* addTodo is not called on a list this long
MaxInFlight == 2    \* fetchTodos calls in flight at once
MaxTicks == 1       \* milliseconds the clock reading rises above ClockStart
ClockStart == 10    \* first clock reading (Date.now() is far above the ids 1, 2)
MaxRejects == 1     \* calls whose write the medium rejects

----------------------------------------------------------------------------
(* A text is a string; Chars spells it, so that toLowerCase is computed     *)
(* character by character.                                                    *)

UpperChars == <<"A","B","C","D","E","F","G","H","I","J","K","L","M",
                "N","O","P","Q","R","S","T","U","V","W","X","Y","Z">>
LowerChars == <<"a","b","c","d","e","f","g","h","i","j","k","l","m",
                "n","o","p","q","r","s","t","u","v","w","x","y","z">>

UpperSet == {UpperChars[i] : i \in 1..Len(UpperChars)}

LowerOf ==
  [c \in UpperSet |-> LowerChars[CHOOSE i \in 1..Len(UpperChars) : UpperChars[i] = c]]

toLowerChar(c) == IF c \in UpperSet THEN LowerOf[c] ELSE c

Chars ==
  [ t \in {"Learn Zustand", "Build a real-world app", "Buy milk",
           "learn zustand"} |->
    CASE t = "Learn Zustand" ->
           <<"L","e","a","r","n"," ","Z","u","s","t","a","n","d">>
      [] t = "Build a real-world app" ->
           <<"B","u","i","l","d"," ","a"," ","r","e","a","l","-",
             "w","o","r","l","d"," ","a","p","p">>
      [] t = "Buy milk" -> <<"B","u","y"," ","m","i","l","k">>
      [] t = "learn zustand" ->
           <<"l","e","a","r","n"," ","z","u","s","t","a","n","d">> ]

toLowerCase(text) ==
  [i \in 1..Len(Chars[text]) |-> toLowerChar(Chars[text][i])]

InputTexts == {"Buy milk", "learn zustand"}

FetchedList ==
  << [id |-> 1, text |-> "Learn Zustand", completed |-> FALSE],
     [id |-> 2, text |-> "Build a real-world app", completed |-> TRUE] >>

Filters == {"all", "active", "completed"}

NULL == "<null>"

----------------------------------------------------------------------------
(* The snapshot *)

DataFields == {"todos", "filter", "isLoading", "error"}
ActionFields == {"fetchTodos", "addTodo", "removeTodo", "toggleTodo",
                 "setFilter", "clearCompleted"}
AllFields == DataFields \cup ActionFields

Array(items) == [isArray |-> TRUE, items |-> items]

initializer ==
  [ todos |-> Array(<<>>),
    filter |-> "all",
    isLoading |-> FALSE,
    error |-> NULL,
    fetchTodos |-> "fn:fetchTodos",
    addTodo |-> "fn:addTodo",
    removeTodo |-> "fn:removeTodo",
    toggleTodo |-> "fn:toggleTodo",
    setFilter |-> "fn:setFilter",
    clearCompleted |-> "fn:clearCompleted" ]

(* set(partial) without the replace flag: Object.assign({}, state, partial) *)
ShallowMergeOverDefaults(prev, partial) ==
  [k \in DOMAIN prev |->
     IF k \in DOMAIN partial THEN partial[k] ELSE initializer[k]]

ShallowMerge(prev, partial) ==
  [k \in DOMAIN prev |-> IF k \in DOMAIN partial THEN partial[k] ELSE prev[k]]

----------------------------------------------------------------------------
(* Object identity.  Before a call every hook holds the objects of the       *)
(* current snapshot (a hook reads them when it mounts and again whenever it   *)
(* is notified), so within a call an object is either one the hooks hold or   *)
(* one the call has built.                                                    *)

Held == 0
New == 1

identity(obj, built) == IF obj \in built THEN New ELSE Held

(* Selector hooks: useTodoStore(selector) in TodoApp and TodoStatus.  A hook  *)
(* re-renders its component when selector(state) is not Object.is-equal to    *)
(* the value the hook last observed.                                          *)

Subs == {"todos", "filter", "isLoading", "error", "state", "statusTodos"}

selectorWholeState(s, st, built) == identity("state", built)

selector(s, st, built) ==
  CASE s = "todos" -> identity("todos", built)
    [] s = "statusTodos" -> identity("todos", built)
    [] s = "filter" -> st.filter
    [] s = "isLoading" -> st.isLoading
    [] s = "error" -> st.error
    [] s = "state" -> identity("state", built)

(* what the hooks hold once the call is over *)
observe(st) == [s \in Subs |-> selector(s, st, {})]

notifyAlways(cache, st, built) == [s \in Subs |-> 1]

(* listeners.forEach(listener => listener(state, previousState)) *)
notify(cache, st, built) ==
  [s \in Subs |-> IF selector(s, st, built) # cache[s] THEN 1 ELSE 0]

NoneFired == [s \in Subs |-> 0]

----------------------------------------------------------------------------
(* persist: the envelope {state: partialize(state), version} as JSON text     *)

Version == 0

partializeAll(st) == [k \in DataFields |-> st[k]]

partialize(st) == [todos |-> st.todos, filter |-> st.filter]

(* JSON text is a sequence of tokens under each key of the object.          *)
boolText(b) == IF b THEN "true" ELSE "false"

todoTokens(t) == <<"{", ToString(t.id), t.text, boolText(t.completed), "}">>

arrayTokens(items) ==
  LET F[i \in 0..Len(items)] ==
        IF i = 0 THEN <<>> ELSE F[i-1] \o todoTokens(items[i])
  IN <<"[">> \o F[Len(items)] \o <<"]">>

stringifyValue(k, v) ==
  CASE k = "todos" -> IF v.isArray THEN arrayTokens(v.items) ELSE <<"null">>
    [] k = "filter" -> <<v>>
    [] k = "isLoading" -> <<boolText(v)>>
    [] k = "error" -> IF v = NULL THEN <<"null">> ELSE <<v>>

(* JSON.stringify keeps values, not identities, and drops function members *)
JSONstringify(obj) ==
  [k \in (DOMAIN obj) \ ActionFields |-> stringifyValue(k, obj[k])]

parseInt(tok) == CHOOSE n \in 0..(ClockStart + MaxTicks) : ToString(n) = tok

parseTodos(toks) ==
  IF toks = <<"null">>
    THEN [isArray |-> FALSE, items |-> <<>>]
    ELSE [isArray |-> TRUE,
          items |-> [i \in 1..((Len(toks) - 2) \div 5) |->
                      [id |-> parseInt(toks[5*i - 2]),
                       text |-> toks[5*i - 1],
                       completed |-> (toks[5*i] = "true")]]]

parseValue(k, toks) ==
  CASE k = "todos" -> parseTodos(toks)
    [] k = "filter" -> toks[1]
    [] k = "isLoading" -> (toks[1] = "true")
    [] k = "error" -> IF toks = <<"null">> THEN NULL ELSE toks[1]

JSONparse(json) == [k \in DOMAIN json |-> parseValue(k, json[k])]

EmptyRecord == [k \in {} |-> 0]

Absent == [present |-> FALSE, parseable |-> FALSE, version |-> Version,
           state |-> EmptyRecord]
Garbage == [present |-> TRUE, parseable |-> FALSE, version |-> Version,
            state |-> EmptyRecord]
(* text another writer left under the key: {"state":{"todos":null,...}} *)
ForeignNull == [present |-> TRUE, parseable |-> TRUE, version |-> Version,
                state |-> [todos |-> <<"null">>, filter |-> <<"all">>]]

(* text holding one of the two persisted fields: {"state":{"filter":"completed"}} *)
FilterOnly == [present |-> TRUE, parseable |-> TRUE, version |-> Version,
               state |-> [filter |-> <<"completed">>]]
(* text written under another version number; the config names no migrate *)
OtherVersion == [present |-> TRUE, parseable |-> TRUE, version |-> Version + 1,
                 state |-> [todos |-> <<"[", "]">>, filter |-> <<"active">>]]

InitialMedia == {Absent, Garbage, ForeignNull, FilterOnly, OtherVersion}

(* setItem: storage.setItem(name, JSON.stringify({state: partialize(get()), version})) *)
setItemStale(st) ==
  [present |-> TRUE, parseable |-> TRUE, version |-> Version,
   state |-> JSONstringify(partialize(state))]

setItem(st) ==
  [present |-> TRUE, parseable |-> TRUE, version |-> Version,
   state |-> JSONstringify(partialize(st))]

mergeDefaultsWin(persisted, current) ==
  [k \in DOMAIN current |-> current[k]]

(* merge: (persisted, current) => ({...current, ...persisted}) *)
merge(persisted, current) ==
  [k \in (DOMAIN current) \cup (DOMAIN persisted) |->
     IF k \in DOMAIN persisted THEN persisted[k] ELSE current[k]]

rehydrateAnyVersion(medium) ==
  IF medium.present /\ medium.parseable
    THEN merge(JSONparse(medium.state), initializer)
    ELSE initializer

(* hydrate at creation: absent or unreadable text leaves the initializer's state *)
rehydrate(medium) ==
  IF medium.present /\ medium.parseable /\ medium.version = Version
    THEN merge(JSONparse(medium.state), initializer)
    ELSE initializer

----------------------------------------------------------------------------
(* The outcome of a call *)

(* TodoApp's mount effect calls fetchTodos once the page is loaded; what the  *)
(* calls since the load amount to, after a call of op                         *)
after(op) ==
  IF sinceLoad = "nothing" /\ op = "fetchTodos:start" THEN "mountFetch" ELSE "more"

Call(op, did, text) == [op |-> op, did |-> did, text |-> text]

NoText == ""

getStateBeforeSwap(next, previous) == previous

(* what getState() returns while the listeners of a set run: set assigns the  *)
(* new state before it calls them                                             *)
getState(next, previous) == next

(* the call reaches set(partial): the state is swapped, the listeners run,    *)
(* and persist's wrapper of set then writes the envelope; elapsed is the rise *)
(* of the clock reading seen by the call                                      *)
CommitWritten(op, text, partial, elapsed) ==
  LET next == ShallowMerge(state, partial)
      built == {"state"} \cup (DOMAIN partial \cap {"todos"})
  IN /\ state' = next
     /\ created' = built
     /\ fired' = notify(observed, getState(next, state), built)
     /\ observed' = observe(getState(next, state))
     /\ storage' = setItem(next)
     /\ writes' = 1
     /\ burstWrites' = IF elapsed > 0 \/ burstWrites = "none" THEN "one" ELSE "many"
     /\ last' = Call(op, "set", text)
     /\ lastPartial' = partial
     /\ sinceLoad' = after(op)
     /\ UNCHANGED rejectsLeft

(* the same call when localStorage.setItem throws (the quota is exceeded):    *)
(* the state is swapped and the listeners have run when persist's wrapper     *)
(* writes, nothing catches the exception, and it leaves set and the action    *)
CommitRejected(op, text, partial, elapsed) ==
  LET next == ShallowMerge(state, partial)
      built == {"state"} \cup (DOMAIN partial \cap {"todos"})
  IN /\ rejectsLeft > 0
     /\ rejectsLeft' = rejectsLeft - 1
     /\ state' = next
     /\ created' = built
     /\ fired' = notify(observed, getState(next, state), built)
     /\ observed' = observe(getState(next, state))
     /\ storage' = storage
     /\ writes' = 1
     /\ burstWrites' = IF elapsed > 0 THEN "none" ELSE burstWrites
     /\ last' = Call(op, "setThrew", text)
     /\ lastPartial' = partial
     /\ sinceLoad' = after(op)

Commit(op, text, partial, elapsed) ==
  \/ CommitWritten(op, text, partial, elapsed)
  \/ CommitRejected(op, text, partial, elapsed)

(* the call ends without reaching set: it returns early, or it throws *)
NoCommit(op, did, text) ==
  /\ created' = {}
  /\ fired' = NoneFired
  /\ writes' = 0
  /\ last' = Call(op, did, text)
  /\ sinceLoad' = after(op)
  /\ UNCHANGED <<state, observed, storage, burstWrites, lastPartial, rejectsLeft>>

neverThrows(todos) == FALSE

(* todos.some, todos.filter, todos.map, [...todos] on a value that is no array *)
arrayMethodThrows(todos) == ~todos.isArray

----------------------------------------------------------------------------
(* The actions of the store *)

hasDuplicateExact(items, text) ==
  \E i \in 1..Len(items) : items[i].text = text

hasDuplicate(items, text) ==
  \E i \in 1..Len(items) : toLowerCase(items[i].text) = toLowerCase(text)

(* elapsed: the milliseconds by which Date.now() exceeds the reading before *)
addTodo(text, elapsed) ==
  /\ UNCHANGED inflight
  /\ IF arrayMethodThrows(state.todos)
       THEN elapsed = 0 /\ UNCHANGED now /\ NoCommit("addTodo", "throw", text)
       ELSE IF hasDuplicate(state.todos.items, text)
         THEN elapsed = 0 /\ UNCHANGED now /\ NoCommit("addTodo", "return", text)
         ELSE /\ Len(state.todos.items) < MaxTodos
              /\ now + elapsed <= ClockStart + MaxTicks
              /\ now' = now + elapsed
              /\ Commit("addTodo", text,
                   [todos |-> Array(Append(state.todos.items,
                      [id |-> now + elapsed, text |-> text, completed |-> FALSE]))],
                   elapsed)

removeTodo(id) ==
  /\ UNCHANGED <<inflight, now>>
  /\ IF arrayMethodThrows(state.todos)
       THEN NoCommit("removeTodo", "throw", NoText)
       ELSE Commit("removeTodo", NoText,
              [todos |-> Array(SelectSeq(state.todos.items, LAMBDA t : t.id # id))], 0)

toggleTodo(id) ==
  /\ UNCHANGED <<inflight, now>>
  /\ IF arrayMethodThrows(state.todos)
       THEN NoCommit("toggleTodo", "throw", NoText)
       ELSE Commit("toggleTodo", NoText,
              [todos |-> Array(
                 [i \in 1..Len(state.todos.items) |->
                    LET t == state.todos.items[i]
                    IN IF t.id = id
                         THEN [t EXCEPT !.completed = ~t.completed]
                         ELSE t])], 0)

setFilter(filter) ==
  /\ UNCHANGED <<inflight, now>>
  /\ Commit("setFilter", NoText, [filter |-> filter], 0)

keepsEvery(todo) == TRUE

(* the test of clearCompleted's filter: (todo) => !todo.completed *)
notCompleted(todo) == ~todo.completed

clearCompleted ==
  /\ UNCHANGED <<inflight, now>>
  /\ IF arrayMethodThrows(state.todos)
       THEN NoCommit("clearCompleted", "throw", NoText)
       ELSE Commit("clearCompleted", NoText,
              [todos |-> Array(SelectSeq(state.todos.items, notCompleted))], 0)

(* fetchTodos up to its await: the first set, then the 1000 ms timer *)
(* a first set that throws leaves the function before the timer is made      *)
fetchTodosStart ==
  /\ UNCHANGED now
  /\ \/ /\ inflight < MaxInFlight
        /\ inflight' = inflight + 1
        /\ CommitWritten("fetchTodos:start", NoText,
             [isLoading |-> TRUE, error |-> NULL], 0)
     \/ /\ inflight' = inflight
        /\ CommitRejected("fetchTodos:start", NoText,
             [isLoading |-> TRUE, error |-> NULL], 0)

fetchedAppended(items) == items \o FetchedList

fetchedItems(items) == FetchedList

(* a timer fires: the promise resolves and the call performs its second set *)
(* the exception localStorage.setItem throws *)
QuotaExceeded == [isError |-> TRUE, message |-> "QuotaExceededError"]

(* the message the catch block stores *)
errorMessage(err) == IF err.isError THEN err.message ELSE "Failed to fetch todos."

(* the second set throws inside try: the catch block sets error, and that set *)
(* throws in its turn, out of the call                                        *)
fetchTodosCatch(fetched) ==
  LET tried == ShallowMerge(state, fetched)
      firedTry == notify(observed, getState(tried, state), {"state", "todos"})
      caught == [error |-> errorMessage(QuotaExceeded), isLoading |-> FALSE]
      next == ShallowMerge(tried, caught)
      firedCatch == notify(observe(getState(tried, state)),
                           getState(next, tried), {"state"})
  IN /\ rejectsLeft > 0
     /\ rejectsLeft' = rejectsLeft - 1
     /\ state' = next
     /\ created' = {"state", "todos"}
     /\ fired' = [s \in Subs |-> firedTry[s] + firedCatch[s]]
     /\ observed' = observe(getState(next, tried))
     /\ storage' = storage
     /\ writes' = 2
     /\ last' = Call("fetchTodos:resolve", "setThrew", NoText)
     /\ lastPartial' = fetched
     /\ sinceLoad' = after("fetchTodos:resolve")
     /\ UNCHANGED burstWrites

fetchTodosResolve ==
  LET fetched == [todos |-> Array(fetchedItems(state.todos.items)),
                  isLoading |-> FALSE]
  IN /\ inflight > 0
     /\ inflight' = inflight - 1
     /\ UNCHANGED now
     /\ \/ CommitWritten("fetchTodos:resolve", NoText, fetched, 0)
        \/ fetchTodosCatch(fetched)

(* the page is loaded again: create(...) runs against the same medium; the    *)
(* timers of the previous page are gone with it                               *)
Create ==
  LET st == rehydrate(storage)
  IN /\ state' = st
     /\ created' = {"state"} \cup (DOMAIN st \cap {"todos"})
     /\ observed' = observe(st)
     /\ fired' = NoneFired
     /\ writes' = 0
     /\ inflight' = 0
     /\ last' = Call("create", "create", NoText)
     /\ lastPartial' = EmptyRecord
     /\ sinceLoad' = "nothing"
     /\ UNCHANGED <<storage, burstWrites, now, rejectsLeft>>

(* the ids of the listed todos, and one id that no todo has *)
IdInputs ==
  {state.todos.items[i].id : i \in 1..Len(state.todos.items)} \cup {0}

Loaded ==
  /\ storage \in InitialMedia
  /\ state = rehydrate(storage)
  /\ created = {"state", "todos"}
  /\ observed = observe(state)
  /\ fired = NoneFired
  /\ writes = 0
  /\ burstWrites = "none"
  /\ inflight = 0
  /\ now = ClockStart
  /\ last = Call("create", "create", NoText)
  /\ lastPartial = EmptyRecord
  /\ sinceLoad = "nothing"

(* a medium that accepts every write *)
Init == Loaded /\ rejectsLeft = 0

(* a medium that may reject the writes of MaxRejects calls *)
InitQuota == Loaded /\ rejectsLeft = MaxRejects

Next ==
  \/ \E text \in InputTexts, elapsed \in {0, 1} : addTodo(text, elapsed)
  \/ \E id \in IdInputs : removeTodo(id)
  \/ \E id \in IdInputs : toggleTodo(id)
  \/ \E filter \in Filters : setFilter(filter)
  \/ clearCompleted
  \/ fetchTodosStart
  \/ fetchTodosResolve
  \/ Create

Spec == Init /\ [][Next]_vars

SpecQuota == InitQuota /\ [][Next]_vars

----------------------------------------------------------------------------
(* Properties *)

LowerEqual(a, b) == toLowerCase(a) = toLowerCase(b)

(* C1: addTodo(text), called when some todo's text equals text              *)
(* case-insensitively, performs no set: the snapshot is unchanged and no     *)
(* hook selecting state.todos is notified.                                   *)
C1_DuplicateAddPerformsNoSet ==
  [][ ( /\ last'.op = "addTodo"
        /\ state.todos.isArray
        /\ \E i \in 1..Len(state.todos.items) :
              LowerEqual(state.todos.items[i].text, last'.text) )
      => /\ last'.did = "return"
         /\ state' = state
         /\ created' = {}
         /\ fired'.todos = 0
         /\ fired'.statusTodos = 0
         /\ writes' = 0 ]_vars

C1_Witness ==
  /\ last.op = "addTodo"
  /\ last.did = "return"
  /\ \E i \in 1..Len(state.todos.items) :
        /\ LowerEqual(state.todos.items[i].text, last.text)
        /\ state.todos.items[i].text # last.text
        /\ state.todos.items[i].completed

MediumHolds(medium, st) ==
  /\ medium.present
  /\ medium.parseable
  /\ {"todos", "filter"} \subseteq DOMAIN medium.state
  /\ medium.state.todos = stringifyValue("todos", st.todos)
  /\ medium.state.filter = <<st.filter>>

(* C2: once the projection {todos, filter} of a state is in the medium, a   *)
(* store created against that medium has the same todos and filter, while   *)
(* isLoading is false and error is null.                                    *)
C2_PersistenceRoundTrip ==
  [][ (last'.op = "create" /\ MediumHolds(storage, state))
      => /\ state'.todos.isArray = state.todos.isArray
         /\ state'.todos.items = state.todos.items
         /\ state'.filter = state.filter
         /\ state'.isLoading = FALSE
         /\ state'.error = NULL ]_vars

C2_Witness ==
  /\ last.op = "create"
  /\ MediumHolds(storage, state)
  /\ Len(state.todos.items) = 2
  /\ state.todos.items # FetchedList
  /\ state.filter = "completed"

(* C3: the medium's value holds the fields todos and filter only, also      *)
(* after a write caused by a set that changed only isLoading and error.     *)
C3_EnvelopeHasOnlyProjectedFields ==
  /\ (storage.present /\ storage.parseable)
       => DOMAIN storage.state \subseteq {"todos", "filter"}
  /\ writes >= 1 => DOMAIN storage.state = {"todos", "filter"}

C3_Witness ==
  /\ last.op = "fetchTodos:start"
  /\ writes = 1
  /\ state.isLoading
  /\ storage.present /\ storage.parseable
  /\ DOMAIN storage.state = {"todos", "filter"}

(* C4: every set yields the previous snapshot with the fields of its        *)
(* partial replaced and every other field, the six action handles           *)
(* included, as before.                                                     *)
C4_SetIsShallowMerge ==
  [][ last'.did = "set"
      => /\ DOMAIN state' = AllFields
         /\ \A k \in AllFields :
              state'[k] = IF k \in DOMAIN lastPartial' THEN lastPartial'[k] ELSE state[k]
         /\ \A k \in ActionFields : state'[k] = state[k] ]_vars

C4_Witness ==
  /\ last.op = "setFilter"
  /\ last.did = "set"
  /\ DOMAIN lastPartial = {"filter"}
  /\ state.filter = "active"
  /\ state.isLoading
  /\ Len(state.todos.items) = 2
  /\ \A k \in ActionFields : state[k] = initializer[k]

(* C5: an updater that throws (removeTodo, toggleTodo, clearCompleted on a  *)
(* todos value that is no list) leaves the snapshot as it was, notifies no  *)
(* listener, writes nothing, and the error reaches the caller.              *)
C5_ThrowingUpdaterLeavesSnapshot ==
  [][ ( /\ last'.op \in {"removeTodo", "toggleTodo", "clearCompleted"}
        /\ ~state.todos.isArray )
      => /\ last'.did = "throw"
         /\ state' = state
         /\ created' = {}
         /\ observed' = observed
         /\ fired' = NoneFired
         /\ writes' = 0
         /\ storage' = storage ]_vars

C5_Witness ==
  /\ last.op \in {"removeTodo", "toggleTodo", "clearCompleted"}
  /\ last.did = "throw"
  /\ ~state.todos.isArray
  /\ writes = 0

C7_DisjointSlicesAreIndependent ==
  [][ /\ last'.op = "setFilter"
         => /\ "todos" \notin created'
            /\ fired'.todos = 0
            /\ fired'.statusTodos = 0
      /\ last'.op \in {"addTodo", "removeTodo", "toggleTodo", "clearCompleted"}
         => fired'.filter = 0
      /\ last'.op = "fetchTodos:start"
         => /\ fired'.todos = 0
            /\ fired'.statusTodos = 0
            /\ fired'.filter = 0 ]_vars

C7_Witness ==
  /\ last.op = "setFilter"
  /\ fired.filter = 1
  /\ fired.todos = 0
  /\ fired.statusTodos = 0
  /\ Len(state.todos.items) > 0

(* C8: a hook whose selector returns the whole state is not notified by a   *)
(* set that changes data fields only.                                       *)
C8_WholeStateHookStaysQuiet ==
  [][ last'.did = "set" => fired'.state = 0 ]_vars

ProjectionText(st) ==
  [todos |-> stringifyValue("todos", st.todos), filter |-> <<st.filter>>]

C10_LastWriteWins ==
  [][ /\ last'.op = "fetchTodos:resolve"
         => /\ last'.did = "set"
            /\ state'.todos = Array(FetchedList)
            /\ state'.isLoading = FALSE
            /\ inflight' = inflight - 1
      /\ (last'.op # "create" /\ inflight' < inflight)
         => last'.op = "fetchTodos:resolve" ]_vars

C10_Witness ==
  /\ last.op = "fetchTodos:resolve"
  /\ inflight = 1
  /\ state.todos = Array(FetchedList)
  /\ ~state.isLoading

Readable(medium) ==
  medium.present /\ medium.parseable /\ medium.version = Version

(* C11: creation never throws; with no text under the key, with text that   *)
(* cannot be parsed or cannot be migrated, the state is the initializer's   *)
(* defaults; with text that parses, its fields override the defaults and    *)
(* the fields it lacks keep them.                                           *)
C11_RehydrationFallsBackToDefaults ==
  last.op = "create"
    => /\ last.did = "create"
       /\ DOMAIN state = AllFields
       /\ \A k \in DataFields :
            state[k] = IF Readable(storage) /\ k \in DOMAIN storage.state
                         THEN parseValue(k, storage.state[k])
                         ELSE initializer[k]
       /\ \A k \in ActionFields : state[k] = initializer[k]

C11_Witness ==
  /\ last.op = "create"
  /\ Readable(storage)
  /\ DOMAIN storage.state = {"filter"}
  /\ state.filter = "completed"
  /\ state.todos = Array(<<>>)
  /\ state.isLoading = FALSE
  /\ state.error = NULL

(* the todos of items that are not completed, in the order of items *)
Uncompleted(items) ==
  LET keep[n \in 0..Len(items)] ==
        IF n = 0 THEN <<>>
        ELSE IF items[n].completed THEN keep[n - 1]
             ELSE Append(keep[n - 1], items[n])
  IN keep[Len(items)]

(* C13: clearCompleted removes exactly the completed todos and keeps the     *)
(* others, unchanged and in their order; afterwards no todo is completed,    *)
(* and a list of one completed todo becomes the empty list.                  *)
C13_ClearCompletedKeepsTheRest ==
  [][ (last'.op = "clearCompleted" /\ state.todos.isArray)
      => /\ last'.did = "set"
         /\ state'.todos = Array(Uncompleted(state.todos.items))
         /\ \A i \in 1..Len(state'.todos.items) : ~state'.todos.items[i].completed
         /\ (Len(state.todos.items) = 1 /\ state.todos.items[1].completed)
              => state'.todos.items = <<>>
         /\ \A k \in AllFields \ {"todos"} : state'[k] = state[k] ]_vars

C13_Witness ==
  /\ last.op = "clearCompleted"
  /\ last.did = "set"
  /\ state.todos = Array(<<FetchedList[1]>>)
  /\ storage.state.todos = arrayTokens(<<FetchedList[1]>>)

ValueHooks == {"filter", "isLoading", "error"}

C15_FailedWriteLeavesSnapshot ==
  [][ last'.did = "setThrew"
      => /\ state' = ShallowMerge(state, lastPartial')
         /\ storage' = storage
         /\ writes' = 1 ]_vars

(* C16: the todos rehydrated from the medium when the page loads are still  *)
(* in the list when the fetchTodos call of TodoApp's mount effect is over.   *)
C16_PersistedTodosSurviveLoad ==
  [][ ( /\ sinceLoad = "mountFetch"
        /\ last'.op = "fetchTodos:resolve"
        /\ state.todos.isArray )
      => \A i \in 1..Len(state.todos.items) :
           \E j \in 1..Len(state'.todos.items) :
             state'.todos.items[j] = state.todos.items[i] ]_vars

DistinctIds(items) ==
  \A i, j \in 1..Len(items) : items[i].id = items[j].id => i = j

(* C17: the todos of every snapshot have pairwise distinct ids, so that      *)
(* toggleTodo(id) changes at most one todo and removeTodo(id) removes at     *)
(* most one.                                                                 *)
C17_IdsAreDistinct ==
  [][ /\ DistinctIds(state'.todos.items)
      /\ (last'.op = "toggleTodo" /\ last'.did = "set")
           => Cardinality({i \in 1..Len(state.todos.items) :
                             state'.todos.items[i] # state.todos.items[i]}) <= 1
      /\ (last'.op = "removeTodo" /\ last'.did = "set")
           => Len(state'.todos.items) >= Len(state.todos.items) - 1 ]_vars

(* C18: no snapshot holds two todos whose texts are equal when compared    *)
(* case-insensitively.                                                       *)
C18_TextsAreDistinct ==
  \A i, j \in 1..Len(state.todos.items) :
    toLowerCase(state.todos.items[i].text) = toLowerCase(state.todos.items[j].text)
      => i = j

C18_Witness ==
  /\ last.op = "addTodo"
  /\ last.did = "set"
  /\ Len(state.todos.items) = 2
  /\ state.todos.items[1] = FetchedList[1]
  /\ state.todos.items[2].text = "Buy milk"

(* C19: isLoading is true exactly when at least one fetchTodos call is in   *)
(* flight, also when two calls overlap.                                      *)
C19_LoadingIffInFlight ==
  state.isLoading <=> inflight > 0

(* C20: once no fetchTodos call is in flight isLoading is false; a call     *)
(* ends either in success (todos is the fetched list, error stays null) or   *)
(* in failure (error is a message, todos is unchanged); error becomes        *)
(* non-null only by a failure, and the first set of fetchTodos resets it.    *)
C20_FetchEndsInOneOutcome ==
  [][ /\ inflight' = 0 => ~state'.isLoading
      /\ last'.op = "fetchTodos:resolve"
           => \/ /\ state'.todos = Array(FetchedList)
                 /\ state'.error = NULL
                 /\ ~state'.isLoading
              \/ /\ state'.error # NULL
                 /\ state'.todos = state.todos
                 /\ ~state'.isLoading
      /\ (state.error = NULL /\ state'.error # NULL)
           => last'.op = "fetchTodos:resolve"
      /\ last'.op = "fetchTodos:start" => state'.error = NULL ]_vars

====
